---- MODULE Spec2Model ----
(***************************************************************************)
(* A model of the MCRAW virtual file system                                *)
(* (src/src/VirtualFileSystemImpl_MCRAW.cpp): directory synthesis in init, *)
(* re-initialisation in updateOptions, the synchronous audio and hidden    *)
(* entry reads, and the two-stage asynchronous image read of               *)
(* generateFrame.                                                          *)
(*                                                                         *)
(* Arithmetic.  Timestamps are integer nanoseconds.  The code's float and  *)
(* double values (the frame rate, the audio drift) are kept as exact       *)
(* rationals; the model's magnitudes stay far below 2^24, where float is   *)
(* exact on the integers involved.                                         *)
(***************************************************************************)
EXTENDS Integers, Sequences, FiniteSets, TLC

(***************************************************************************)
(* Bounds of the model.                                                    *)
(***************************************************************************)
MaxTick == 5
MaxFrames == 3
DirMaxTick == 2
DirMaxFrames == 2
MaxScale == 2
MaxDng == 4
MaxLen == 3
ProcThreads == 2
MaxReads == 2
MaxDecoderReads == 3
SizeBits == 3
FrameBits == 5
MaxDataBytes == 4
MaxSeek == 5
MaxChannels == 2
AudioMaxTick == 3
MaxChunks == 2
MaxChunkFrames == 2

(***************************************************************************)
(* Program constants.                                                      *)
(***************************************************************************)
IO_THREADS == 4
WAVE_FORMAT_PCM == 1
WAVE_FORMAT_EXTENSIBLE == 65534
NsPerSec == 1000000000
NsPerMs == 1000000

\* One model tick is a millisecond of capture time, in nanoseconds.
TickNs == NsPerMs

\* std::variant without a Timestamp alternative held (Entry::userData unset).
NoUserData == 0 - 1

\* FileRenderOptions: a set of flags.
RENDER_OPT_DRAFT == "DRAFT"
OptionSet == {{}, {RENDER_OPT_DRAFT}}
DraftScales == 1..MaxScale

(***************************************************************************)
(* Exact arithmetic helpers.                                               *)
(***************************************************************************)
RECURSIVE GCD(_, _)
GCD(a, b) == IF b = 0 THEN a ELSE GCD(b, a % b)

\* std::round(a / b) for a >= 0, b > 0: halves round away from zero.
RoundDiv(a, b) == (2 * a + b) \div (2 * b)

\* std::round(x * m / d) for x >= 0, with m/d reduced first.
RoundMulDiv(x, m, d) ==
    LET g == GCD(m, d)
    IN  RoundDiv(x * (m \div g), d \div g)

Min(a, b) == IF a <= b THEN a ELSE b

RECURSIVE Flatten(_)
Flatten(chunks) ==
    IF chunks = <<>> THEN <<>>
    ELSE Head(chunks).samples \o Flatten(Tail(chunks))

(***************************************************************************)
(* Strings are sequences of one-character strings.                         *)
(***************************************************************************)
DigitChar == <<"0", "1", "2", "3", "4", "5", "6", "7", "8", "9">>

RECURSIVE Decimal(_)
Decimal(n) ==
    IF n < 10 THEN <<DigitChar[n + 1]>>
    ELSE Decimal(n \div 10) \o <<DigitChar[(n % 10) + 1]>>

RECURSIVE PadLeft(_, _)
\* std::setfill('0') << std::setw(padding): a minimum width, never a cut.
PadLeft(s, padding) ==
    IF Len(s) >= padding THEN s ELSE PadLeft(<<"0">> \o s, padding)

ends_with(name, suffix) ==
    /\ Len(name) >= Len(suffix)
    /\ SubSeq(name, Len(name) - Len(suffix) + 1, Len(name)) = suffix

FramePrefix == <<"f", "r", "a", "m", "e", "-">>
DngExt == <<"d", "n", "g">>
WavExt == <<"w", "a", "v">>
AudioName == <<"a", "u", "d", "i", "o", ".", "w", "a", "v">>
DesktopIniName == <<"d", "e", "s", "k", "t", "o", "p", ".", "i", "n", "i">>

constructFrameFilename(baseName, frameNumber, padding, extension) ==
    baseName \o PadLeft(Decimal(frameNumber), padding)
        \o (IF extension = <<>> THEN <<>>
            ELSE (IF Head(extension) # "." THEN <<".">> ELSE <<>>) \o extension)

(***************************************************************************)
(* calculateFrameRate.  The result 1e9 / avgDuration is kept as the        *)
(* reduced fraction frames/ns (frames per ns nanoseconds); 0.0f is 0/1.    *)
(***************************************************************************)
ZeroFps == [frames |-> 0, ns |-> 1]

RECURSIVE DurationSum(_, _)
DurationSum(frames, i) ==
    IF i > Len(frames) THEN [sum |-> 0, valid |-> 0]
    ELSE LET rest == DurationSum(frames, i + 1)
             duration == frames[i] - frames[i - 1]
         IN  IF duration > 0
             THEN [sum |-> rest.sum + duration, valid |-> rest.valid + 1]
             ELSE rest

calculateFrameRate(frames) ==
    IF Len(frames) < 2 THEN ZeroFps
    ELSE LET d == DurationSum(frames, 2)
         IN  IF d.valid = 0 THEN ZeroFps
             ELSE LET g == GCD(d.valid, d.sum)
                  IN  [frames |-> d.valid \div g, ns |-> d.sum \div g]

getFrameNumberFromTimestamp(timestamp, referenceTimestamp, frameRate) ==
    IF frameRate.frames <= 0 THEN 0 - 1
    ELSE LET timeDifference == timestamp - referenceTimestamp
         IN  IF timeDifference < 0 THEN 0 - 1
             ELSE RoundDiv(timeDifference * frameRate.frames, frameRate.ns)

getScaleFromOptions(options, draftScale) ==
    IF RENDER_OPT_DRAFT \in options THEN draftScale ELSE 1

(***************************************************************************)
(* Audio.  An AudioChunk is [ts, samples]: the timestamp of its first      *)
(* sample and its interleaved int16 samples.                               *)
(***************************************************************************)
Zeros(n) == [k \in 1..n |-> 0]

RECURSIVE TrimChunksDropPartial(_, _, _)
\* The while loop erasing also the chunk it should trim.
TrimChunksDropPartial(chunks, remaining, sampleRate) ==
    IF chunks = <<>> \/ remaining <= 0 THEN chunks
    ELSE TrimChunksDropPartial(Tail(chunks), remaining - Len(Head(chunks).samples),
                               sampleRate)

RECURSIVE TrimChunks(_, _, _)
\* The while loop of the trim branch: remaining = samplesToRemove - samplesRemoved.
TrimChunks(chunks, remaining, sampleRate) ==
    IF chunks = <<>> \/ remaining <= 0 THEN chunks
    ELSE LET c == Head(chunks)
         IN  IF Len(c.samples) <= remaining
             THEN TrimChunks(Tail(chunks), remaining - Len(c.samples), sampleRate)
             ELSE <<[ts |-> c.ts + ((remaining * 1000) \div sampleRate),
                     samples |-> SubSeq(c.samples, remaining + 1, Len(c.samples))]>>
                  \o Tail(chunks)

syncAudio(videoTimestamp, audioChunks, sampleRate, numChannels) ==
    LET drift == audioChunks[1].ts - videoTimestamp
    IN  IF drift > 0
        THEN LET audioFramesToRemove == RoundMulDiv(drift, sampleRate, NsPerSec)
                 samplesToRemove == audioFramesToRemove * numChannels
             IN  TrimChunks(audioChunks, samplesToRemove, sampleRate)
        ELSE LET silenceFrames == RoundMulDiv(0 - drift, sampleRate, NsPerSec)
                 silenceSamples == silenceFrames * numChannels
                 \* silenceDuration is a float count of milliseconds; adding it
                 \* to the int64 timestamp keeps the whole milliseconds only.
                 shift == (0 - drift) \div NsPerMs
             IN  <<[ts |-> videoTimestamp, samples |-> Zeros(silenceSamples)]>>
                 \o [k \in 1..Len(audioChunks) |->
                        [audioChunks[k] EXCEPT !.ts = @ + shift]]

\* One int16 sample as two little-endian bytes.
Int16LE(s) ==
    LET u == (s + 65536) % 65536
    IN  <<u % 256, u \div 256>>

RECURSIVE SampleBytes(_)
SampleBytes(samples) ==
    IF samples = <<>> THEN <<>>
    ELSE Int16LE(Head(samples)) \o SampleBytes(Tail(samples))

\* AudioWriter: the container written into the byte sink, one cell per
\* header field (channels, bits per sample, block alignment, data size),
\* then the samples of every chunk.  The sink holds this container only.
AudioWriter(output, numChannels, sampleRate, chunks) ==
    LET samples == Flatten(chunks)
        blockAlignment == (numChannels * 16) \div 8
    IN  <<numChannels, 16, blockAlignment, (Len(samples) * 2) % 256>>
        \o SampleBytes(samples)

(***************************************************************************)
(* Entries and init.                                                       *)
(***************************************************************************)
\* An entry whose size is never assigned.
EntryWithoutSize(name, size, userData) ==
    [type |-> "FILE_ENTRY", size |-> 0, name |-> name, userData |-> userData]

Entry(name, size, userData) ==
    [type |-> "FILE_ENTRY", size |-> size, name |-> name, userData |-> userData]

\* Size of the DESKTOP_INI constant (the model keeps it short).
DesktopIniBytes == <<91, 46, 83, 93>>

\* The while loop with lastPts <= pts: the slot pts is emitted too.
DuplicateFramesInclusive(lastPts, pts, size, x) ==
    [k \in 1..(IF lastPts <= pts THEN pts - lastPts + 1 ELSE 0) |->
        Entry(constructFrameFilename(FramePrefix, lastPts + k - 1, 6, DngExt),
              size, x)]

\* The while loop of init: entries for the slots lastPts .. pts-1, all
\* carrying the current source frame x.
DuplicateFrames(lastPts, pts, size, x) ==
    [k \in 1..(IF lastPts < pts THEN pts - lastPts ELSE 0) |->
        Entry(constructFrameFilename(FramePrefix, lastPts + k - 1, 6, DngExt),
              size, x)]

RECURSIVE FrameEntriesPrevious(_, _, _, _, _)
\* The for loop with the slots of a gap given the frame before the gap.
FrameEntriesPrevious(frames, i, lastPts, fps, size) ==
    IF i > Len(frames) THEN <<>>
    ELSE LET pts == getFrameNumberFromTimestamp(frames[i], frames[1], fps)
             emitted == DuplicateFrames(lastPts, pts, size,
                                        frames[IF i > 1 THEN i - 1 ELSE 1])
         IN  emitted \o FrameEntriesPrevious(frames, i + 1, lastPts + Len(emitted),
                                             fps, size)

RECURSIVE FrameEntries(_, _, _, _, _)
\* The for loop of init over the sorted frames, from index i on.
FrameEntries(frames, i, lastPts, fps, size) ==
    IF i > Len(frames) THEN <<>>
    ELSE LET pts == getFrameNumberFromTimestamp(frames[i], frames[1], fps)
             emitted == DuplicateFrames(lastPts, pts, size, frames[i])
         IN  emitted \o FrameEntries(frames, i + 1, lastPts + Len(emitted), fps, size)

\* A clear() that is missing: the entries of the previous init stay.
KeepFiles(files) == files

\* mFiles.clear()
ClearFiles(files) == <<>>

\* The steps of init that may throw: constructing the Decoder, the probe
\* (loadFrame, the metadata parsers, generateDng), loadAudio.
InitFailPoints == {"none", "open", "probe", "loadAudio"}

\* init(options) on the member state pre, reading capture cap; fail is the
\* step that throws (none: no step does), dngSize the size of the probe
\* encoding.  The result is the member state init leaves and how it ended.
initRun(pre, cap, w32, options, fail, dngSize) ==
    IF fail = "open" THEN [state |-> pre, result |-> "error"]
    ELSE
    LET frames == SortSeq(cap.frames, LAMBDA a, b: a < b)
    IN  IF frames = <<>> THEN [state |-> pre, result |-> "ok"]
        ELSE
        LET fps == calculateFrameRate(frames)
            s1 == [pre EXCEPT !.mFiles = ClearFiles(@), !.mFps = fps]
        IN  IF fail = "probe"
            THEN [state |-> s1, result |-> "error"]
            ELSE
            LET hidden == IF w32
                          THEN <<Entry(DesktopIniName, Len(DesktopIniBytes), NoUserData)>>
                          ELSE <<>>
                s2 == [s1 EXCEPT !.mTypicalDngSize = dngSize,
                                 !.mFiles = @ \o hidden]
            IN  IF fail = "loadAudio"
                THEN [state |-> s2, result |-> "error"]
                ELSE
                LET audioFile ==
                        IF cap.audio # <<>>
                        THEN AudioWriter(pre.mAudioFile, cap.channels, cap.rate,
                                 syncAudio(frames[1], cap.audio, cap.rate, cap.channels))
                        ELSE pre.mAudioFile
                    audioEntry ==
                        IF audioFile # <<>>
                        THEN <<Entry(AudioName, Len(audioFile), NoUserData)>>
                        ELSE <<>>
                IN  [state |-> [s2 EXCEPT
                                  !.mAudioFile = audioFile,
                                  !.mFiles = @ \o audioEntry
                                      \o FrameEntries(frames, 1, 0, fps, dngSize)],
                     result |-> "ok"]

(***************************************************************************)
(* Captures: what the decoder reports for the file at mSrcPath.            *)
(***************************************************************************)
\* getFrames(): up to n timestamps in non-decreasing order, repeats allowed,
\* the first at tick 1, the others up to tick 1 + maxTick.
FrameLists(maxFrames, maxTick) ==
    UNION {{s \in [1..n -> {t * TickNs : t \in 1..(1 + maxTick)}] :
                /\ n > 0 => s[1] = TickNs
                /\ \A i \in 1..(n - 1) : s[i] <= s[i + 1]}
           : n \in 0..maxFrames}

SampleValue(n) == IF n % 2 = 1 THEN n ELSE 0 - n

RECURSIVE MakeChunks(_, _, _, _, _)
\* Chunks of consecutive audio from timestamp ts on, layout[k] audio frames
\* in chunk k; sample n has SampleValue(n).
MakeChunks(ts, layout, channels, rate, first) ==
    IF layout = <<>> THEN <<>>
    ELSE LET n == Head(layout) * channels
         IN  <<[ts |-> ts,
                samples |-> [k \in 1..n |-> SampleValue(first + k - 1)]]>>
             \o MakeChunks(ts + Head(layout) * (NsPerSec \div rate),
                           Tail(layout), channels, rate, first + n)

NoAudio == [audio |-> <<>>, rate |-> 1000, channels |-> 1]

AudioTrack(startTick, layout, channels, rate) ==
    [audio |-> MakeChunks(startTick * TickNs, layout, channels, rate, 1),
     rate |-> rate, channels |-> channels]

\* No audio; audio starting one tick before the first frame; audio starting
\* one tick after it.
DirAudioTracks ==
    {NoAudio, AudioTrack(0, <<1, 2>>, 1, 1000), AudioTrack(2, <<2, 1>>, 2, 1000)}

CapturesOf(frameLists, tracks) ==
    {[frames |-> f, audio |-> a.audio, rate |-> a.rate, channels |-> a.channels]
        : f \in frameLists, a \in tracks}

(***************************************************************************)
(* The image encoder, utils::generateDng: a deterministic function of its  *)
(* inputs.  Three encoders stand for it: one whose output has the same     *)
(* size for every input, one whose output shrinks with the scale, one      *)
(* whose output size depends on the frame.                                 *)
(***************************************************************************)
EncoderProfiles == {"uniform", "scaled", "perFrame"}

generateDngSize(profile, timestamp, fps, frameIndex, options, scale) ==
    CASE profile = "uniform" -> MaxDng
      [] profile = "scaled" -> IF scale >= MaxDng THEN 1 ELSE MaxDng \div scale
      [] profile = "perFrame" -> MaxDng - ((timestamp \div TickNs) % 2)

(***************************************************************************)
(* State.                                                                  *)
(***************************************************************************)
VARIABLES
    capture,          \* the capture file's content, as the decoder reports it
    win32,            \* whether the build defines _WIN32
    encoder,          \* which encoder generateDng is
    mFiles,
    mFps,
    mTypicalDngSize,
    mDraftScale,
    mAudioFile,
    call,             \* the host's last call and how it ended
    replaced,         \* whether the capture file changed since construction
    reads,            \* the image reads submitted so far, in order
    ioQueue,          \* stage-1 tasks waiting for a worker of mIoThreadPool
    ioRunning,        \* per I/O worker: the read whose stage 1 it runs, or 0
    decoders,         \* per I/O worker: its thread_local decoder for mSrcPath
    procQueue,        \* stage-2 tasks waiting for mProcessingThreadPool
    procRunning,      \* the reads whose stage 2 a processing worker runs
    syncRead,         \* the last synchronous readFile and what it returned
    copy,             \* the audio bytes a host reading slice after slice holds
    audioSync,        \* a syncAudio call: its arguments and the chunks it leaves
    fmtParse,         \* a parseFormatInfoChunk call: the chunk read and the outcome
    headerParse,      \* a parseHeader call of an opening Bw64Reader
    bw64Reader        \* an open Bw64Reader: its data chunk and stream position

vfsVars == <<mFiles, mFps, mTypicalDngSize, mDraftScale, mAudioFile>>
pipeVars == <<reads, ioQueue, ioRunning, decoders, procQueue, procRunning>>
syncVars == <<syncRead, copy>>
bw64Vars == <<headerParse, bw64Reader>>

vars == <<capture, win32, encoder, mFiles, mFps, mTypicalDngSize, mDraftScale,
          mAudioFile, call, replaced, reads, ioQueue, ioRunning, decoders,
          procQueue, procRunning, syncRead, copy, audioSync, fmtParse,
          headerParse, bw64Reader>>

VfsState ==
    [mFiles |-> mFiles, mFps |-> mFps, mTypicalDngSize |-> mTypicalDngSize,
     mDraftScale |-> mDraftScale, mAudioFile |-> mAudioFile]

IoWorkers == 1..IO_THREADS
\* A worker's thread_local storage before its first task: no decoder for
\* mSrcPath.  With the decoder the slot keeps its history: how many Decoders
\* were constructed into it (created), the threads that called into one
\* (users), the stage-1 tasks that ended on the thread (tasks) and those of
\* them that threw before a decoder was in the map (early).
NoDecoder ==
    [open |-> FALSE, frames |-> <<>>, created |-> 0, users |-> {},
     tasks |-> 0, early |-> 0]

\* One map of decoders for all threads (static instead of thread_local).
DecoderSlotStatic(w) == 1

\* thread_local: worker w's tasks see the map of worker w.
DecoderSlot(w) == w
\* No parseHeader call made, no reader open.
NoHeaderParse ==
    [ds64 |-> <<>>, id |-> "", chunkSize |-> 0, called |-> FALSE, size |-> 0]

NoBw64Reader ==
    [open |-> FALSE, dataSize |-> 0, numberOfFrames |-> 0, blockAlignment |-> 0,
     tell |-> 0, op |-> "", way |-> "", arg |-> 0, before |-> 0, result |-> "",
     ret |-> 0]

NoFmtParse ==
    [id |-> "", size |-> 0, formatTag |-> 0, channelCount |-> 0, sampleRate |-> 0,
     bytesPerSecond |-> 0, blockAlignment |-> 0, bitsPerSample |-> 0,
     cbSize |-> 0, subFormat |-> 0, called |-> FALSE,
     result |-> [ok |-> FALSE, error |-> "", chunk |-> <<>>]]
NoAudioSync ==
    [videoTimestamp |-> 0, audioChunks |-> <<>>, sampleRate |-> 0,
     numChannels |-> 0, called |-> FALSE, result |-> <<>>]
NoSyncRead ==
    [kind |-> "none", pos |-> 0, len |-> 0, ret |-> 0, data |-> <<>>,
     callbacks |-> <<>>, crashed |-> FALSE]

\* The members as the constructor's initialiser list leaves them.
Constructed(draftScale) ==
    [mFiles |-> <<>>, mFps |-> ZeroFps, mTypicalDngSize |-> 0,
     mDraftScale |-> draftScale, mAudioFile |-> <<>>]

\* The size of init's probe encoding: frames[0], frame index 0.
ProbeSize(profile, cap, options, draftScale) ==
    LET frames == SortSeq(cap.frames, LAMBDA a, b: a < b)
    IN  IF frames = <<>> THEN 0
        ELSE generateDngSize(profile, frames[1], calculateFrameRate(frames), 0,
                 options, getScaleFromOptions(options, draftScale))

\* init(options) on the member state pre (mDraftScale already set).
init(pre, cap, w32, profile, options, fail) ==
    initRun(pre, cap, w32, options, fail,
            ProbeSize(profile, cap, options, pre.mDraftScale))

updateOptions(options, draftScale, fail) ==
    LET r == init([VfsState EXCEPT !.mDraftScale = draftScale],
                  capture, win32, encoder, options, fail)
    IN  /\ mFiles' = r.state.mFiles
        /\ mFps' = r.state.mFps
        /\ mTypicalDngSize' = r.state.mTypicalDngSize
        /\ mDraftScale' = r.state.mDraftScale
        /\ mAudioFile' = r.state.mAudioFile
        /\ call' = [op |-> "updateOptions", options |-> options,
                    result |-> r.result]
        /\ UNCHANGED <<capture, win32, encoder, bw64Vars, fmtParse, audioSync, replaced, pipeVars, syncVars>>

\* The environment: the capture file is cut to its first k frames, once.
ReplaceCapture(k) ==
    /\ ~replaced
    /\ k < Len(capture.frames)
    /\ capture' = [capture EXCEPT !.frames = SubSeq(@, 1, k)]
    /\ replaced' = TRUE
    /\ call' = [op |-> "replace", options |-> {}, result |-> "ok"]
    /\ UNCHANGED <<win32, encoder, bw64Vars, fmtParse, audioSync, vfsVars, pipeVars, syncVars>>

\* The state a successful construction on one of the captures leaves.
VfsConstructedOn(captures, builds, profiles, optionSets, draftScales) ==
    \E cap \in captures, w32 \in builds, profile \in profiles,
       options \in optionSets, draftScale \in draftScales :
        LET r == init(Constructed(draftScale), cap, w32, profile, options, "none")
        IN  /\ capture = cap
            /\ win32 = w32
            /\ encoder = profile
            /\ mFiles = r.state.mFiles
            /\ mFps = r.state.mFps
            /\ mTypicalDngSize = r.state.mTypicalDngSize
            /\ mDraftScale = r.state.mDraftScale
            /\ mAudioFile = r.state.mAudioFile
            /\ call = [op |-> "construct", options |-> options, result |-> "ok"]
            /\ replaced = FALSE
            /\ reads = <<>>
            /\ ioQueue = <<>>
            /\ ioRunning = [w \in IoWorkers |-> 0]
            /\ decoders = [w \in IoWorkers |-> NoDecoder]
            /\ procQueue = <<>>
            /\ procRunning = {}
            /\ syncRead = NoSyncRead
            /\ copy = [next |-> 0, bytes |-> <<>>]

ConstructedOn(captures, builds, profiles, optionSets, draftScales) ==
    /\ VfsConstructedOn(captures, builds, profiles, optionSets, draftScales)
    /\ audioSync = NoAudioSync
    /\ fmtParse = NoFmtParse
    /\ headerParse = NoHeaderParse
    /\ bw64Reader = NoBw64Reader

listFiles == mFiles

\* The name of slot n, n < 10, written out.
SlotName(n) ==
    <<"f", "r", "a", "m", "e", "-", "0", "0", "0", "0", "0", DigitChar[n + 1],
      ".", "d", "n", "g">>
SlotName9 == SlotName(9)

(***************************************************************************)
(* Synchronous reads.  size_t is unsigned: SizeWrap stands for 2^64, above *)
(* every length of the model.                                              *)
(***************************************************************************)
SizeWrap == 2 ^ 30
SizeSub(a, b) == IF a >= b THEN a - b ELSE SizeWrap - (b - a)

\* The bytes a memcpy of count bytes from offset pos of buffer reads; a byte
\* past the end of the buffer has the value stray.
MemcpyFrom(buffer, pos, count, stray) ==
    [k \in 1..count |->
        IF pos + k <= Len(buffer) THEN buffer[pos + k] ELSE stray]

\* generateAudio copying len bytes whatever is left of the buffer.
generateAudioNoClamp(audioFile, pos, len) ==
    IF pos < Len(audioFile)
    THEN [ret |-> len, data |-> MemcpyFrom(audioFile, pos, len, 0),
          callbacks |-> <<>>, crashed |-> FALSE]
    ELSE [ret |-> 0, data |-> <<>>, callbacks |-> <<>>, crashed |-> FALSE]

generateAudio(audioFile, pos, len) ==
    IF pos < Len(audioFile)
    THEN LET actualLen == Min(len, SizeSub(Len(audioFile), pos))
         IN  [ret |-> actualLen,
              data |-> MemcpyFrom(audioFile, pos, actualLen, 0),
              callbacks |-> <<>>, crashed |-> FALSE]
    ELSE [ret |-> 0, data |-> <<>>, callbacks |-> <<>>, crashed |-> FALSE]

\* What reading past the end of a constant may do.
UbOutcomes == {"crash", "zeros", "ones"}

\* The desktop.ini branch of readFile (_WIN32): no test of pos.  A copy
\* that runs past DESKTOP_INI is undefined: the process dies, or the copy
\* delivers whatever lies behind the constant.
readDesktopIni(pos, len, ub) ==
    LET actualLen == Min(len, SizeSub(Len(DesktopIniBytes), pos))
    IN  IF actualLen > 0 /\ pos + actualLen > Len(DesktopIniBytes) /\ ub = "crash"
        THEN [ret |-> 0, data |-> <<>>, callbacks |-> <<>>, crashed |-> TRUE]
        ELSE [ret |-> actualLen,
              data |-> MemcpyFrom(DesktopIniBytes, pos, actualLen,
                                  IF ub = "ones" THEN 255 ELSE 0),
              callbacks |-> <<>>, crashed |-> FALSE]

(***************************************************************************)
(* The asynchronous image read, generateFrame.                             *)
(***************************************************************************)
\* std::distance(allFrames.begin(), std::find(...)), or -1 for end().
RECURSIVE FindFrame(_, _, _)
FindFrame(allFrames, timestamp, i) ==
    IF i > Len(allFrames) THEN 0 - 1
    ELSE IF allFrames[i] = timestamp THEN i - 1
    ELSE FindFrame(allFrames, timestamp, i + 1)

\* The stage-1 task on a worker whose thread_local decoder is decoder, the
\* capture file being cap; fault is the decoder call that throws (open: the
\* Decoder constructor, loadFrame), none if none does.  The decoder's
\* exceptions are std::runtime_error.
stage1Task(entry, decoder, cap, fault) ==
    IF entry.userData = NoUserData
    THEN [s1 |-> "bad_variant_access", fault1 |-> "noTimestamp",
          frameIndex |-> 0, decoder |-> decoder]
    ELSE IF ~decoder.open /\ fault = "open"
    THEN [s1 |-> "runtime_error", fault1 |-> "decoder",
          frameIndex |-> 0, decoder |-> decoder]
    ELSE
    LET dec == IF decoder.open THEN decoder
               ELSE [decoder EXCEPT !.open = TRUE, !.frames = cap.frames,
                                    !.created = @ + 1]
        index == FindFrame(dec.frames, entry.userData, 1)
    IN  IF index < 0
        THEN [s1 |-> "runtime_error", fault1 |-> "notFound",
              frameIndex |-> 0, decoder |-> dec]
        ELSE IF fault = "loadFrame"
        THEN [s1 |-> "runtime_error", fault1 |-> "decoder",
              frameIndex |-> 0, decoder |-> dec]
        ELSE [s1 |-> "value", fault1 |-> "none",
              frameIndex |-> index, decoder |-> dec]

\* Stage 2 reading the members when it runs, not the copies made at submission.
EncoderArgsLive(r) == [fps |-> mFps, draftScale |-> mDraftScale]

\* The fps and draft scale generateTask hands to the encoder: its captures
\* fps and draftScale.
EncoderArgs(r) == [fps |-> r.fps, draftScale |-> r.draftScale]

\* The size of the encoding stage 2 of read r produces.
EncodedSize(profile, r) ==
    generateDngSize(profile, r.entry.userData, EncoderArgs(r).fps, r.frameIndex,
                    r.options,
                    getScaleFromOptions(r.options, EncoderArgs(r).draftScale))

\* generateTask with errorCode starting at 0.
generateTaskErrorZero(r, profile, fault) ==
    IF r.s1 = "bad_variant_access"
    THEN [escaped |-> TRUE, fault2 |-> "none", callbacks |-> <<>>,
          copied |-> [from |-> 0, count |-> 0]]
    ELSE IF r.s1 = "runtime_error" \/ fault = "encoder"
    THEN [escaped |-> FALSE,
          fault2 |-> IF r.s1 = "value" THEN "encoder" ELSE "none",
          callbacks |-> <<<<0, 0>>>>, copied |-> [from |-> 0, count |-> 0]]
    ELSE LET size == EncodedSize(profile, r)
         IN  IF fault # "noOutput" /\ r.pos < size
             THEN LET actualLen == Min(r.len, SizeSub(size, r.pos))
                  IN  [escaped |-> FALSE, fault2 |-> "none",
                       callbacks |-> <<<<actualLen, 0>>>>,
                       copied |-> [from |-> r.pos, count |-> actualLen]]
             ELSE [escaped |-> FALSE,
                   fault2 |-> IF fault = "noOutput" THEN "noOutput" ELSE "none",
                   callbacks |-> <<<<0, 0>>>>,
                   copied |-> [from |-> 0, count |-> 0]]

\* generateTask, the stage-2 task of read r, once stage 1 has ended; fault
\* is what the encoder does wrong (encoder: it throws std::runtime_error,
\* noOutput: it returns no buffer).  readBytes = 0 and errorCode = -1 unless
\* the copy is made; catch takes std::runtime_error only, so any other
\* exception of stage 1 leaves the task before result is called.
generateTask(r, profile, fault) ==
    IF r.s1 = "bad_variant_access"
    THEN [escaped |-> TRUE, fault2 |-> "none", callbacks |-> <<>>,
          copied |-> [from |-> 0, count |-> 0]]
    ELSE IF r.s1 = "runtime_error" \/ fault = "encoder"
    THEN [escaped |-> FALSE,
          fault2 |-> IF r.s1 = "value" THEN "encoder" ELSE "none",
          callbacks |-> <<<<0, 0 - 1>>>>, copied |-> [from |-> 0, count |-> 0]]
    ELSE LET size == EncodedSize(profile, r)
         IN  IF fault # "noOutput" /\ r.pos < size
             THEN LET actualLen == Min(r.len, SizeSub(size, r.pos))
                  IN  [escaped |-> FALSE, fault2 |-> "none",
                       callbacks |-> <<<<actualLen, 0>>>>,
                       copied |-> [from |-> r.pos, count |-> actualLen]]
             ELSE [escaped |-> FALSE,
                   fault2 |-> IF fault = "noOutput" THEN "noOutput" ELSE "none",
                   callbacks |-> <<<<0, 0 - 1>>>>,
                   copied |-> [from |-> 0, count |-> 0]]

\* generateFrame: both tasks are submitted, fps and draft scale are copied
\* from the members, and 0 is returned.
generateFrame(entry, options, pos, len) ==
    LET id == Len(reads) + 1
    IN  /\ reads' = Append(reads,
              [entry |-> entry, options |-> options, pos |-> pos, len |-> len,
               fps |-> mFps, draftScale |-> mDraftScale,
               s1 |-> "queued", fault1 |-> "none", frameIndex |-> 0,
               s2 |-> "queued", fault2 |-> "none",
               callbacks |-> <<>>, copied |-> [from |-> 0, count |-> 0],
               passed |-> <<>>, endedAfter |-> "", ret |-> 0])
        /\ ioQueue' = Append(ioQueue, id)
        /\ procQueue' = Append(procQueue, id)
        /\ UNCHANGED <<ioRunning, decoders, procRunning>>

\* An idle I/O worker takes the next stage-1 task.  Idle workers whose
\* decoders are in the same state are interchangeable: the lowest takes it.
Stage1Start(w) ==
    /\ ioQueue # <<>>
    /\ ioRunning[w] = 0
    /\ \A v \in IoWorkers :
          (v < w /\ ioRunning[v] = 0)
              => decoders[DecoderSlot(v)] # decoders[DecoderSlot(w)]
    /\ ioRunning' = [ioRunning EXCEPT ![w] = Head(ioQueue)]
    /\ ioQueue' = Tail(ioQueue)
    /\ reads' = [reads EXCEPT ![Head(ioQueue)].s1 = "running"]
    /\ UNCHANGED <<decoders, procQueue, procRunning>>
    /\ UNCHANGED <<capture, win32, encoder, bw64Vars, fmtParse, audioSync, vfsVars, call, replaced, syncVars>>

Stage1Finish(w, fault) ==
    /\ ioRunning[w] # 0
    /\ LET id == ioRunning[w]
           slot == DecoderSlot(w)
           out == stage1Task(reads[id].entry, decoders[slot], capture, fault)
       IN  /\ reads' = [reads EXCEPT ![id].s1 = out.s1,
                                     ![id].fault1 = out.fault1,
                                     ![id].frameIndex = out.frameIndex]
           /\ decoders' = [decoders EXCEPT ![slot] =
                  [out.decoder EXCEPT
                      !.users = IF out.decoder.open THEN @ \cup {w} ELSE @,
                      !.tasks = @ + 1,
                      !.early = IF out.decoder.open THEN @ ELSE @ + 1]]
    /\ ioRunning' = [ioRunning EXCEPT ![w] = 0]
    /\ UNCHANGED <<ioQueue, procQueue, procRunning>>
    /\ UNCHANGED <<capture, win32, encoder, bw64Vars, fmtParse, audioSync, vfsVars, call, replaced, syncVars>>

\* A processing worker takes the next stage-2 task; it then waits in
\* sharableFuture.get() until stage 1 has ended.
Stage2Start ==
    /\ procQueue # <<>>
    /\ Cardinality(procRunning) < ProcThreads
    /\ procRunning' = procRunning \cup {Head(procQueue)}
    /\ procQueue' = Tail(procQueue)
    /\ reads' = [reads EXCEPT ![Head(procQueue)].s2 = "running"]
    /\ UNCHANGED <<ioQueue, ioRunning, decoders>>
    /\ UNCHANGED <<capture, win32, encoder, bw64Vars, fmtParse, audioSync, vfsVars, call, replaced, syncVars>>

Stage1Ended(r) == r.s1 \in {"value", "runtime_error", "bad_variant_access"}

Stage2Finish(id, fault) ==
    /\ id \in procRunning
    /\ Stage1Ended(reads[id])
    /\ LET out == generateTask(reads[id], encoder, fault)
       IN  reads' = [reads EXCEPT
                       ![id].s2 = IF out.escaped THEN "escaped" ELSE "returned",
                       ![id].fault2 = out.fault2,
                       ![id].callbacks = @ \o out.callbacks,
                       ![id].copied = out.copied,
                       ![id].passed = IF reads[id].s1 = "value"
                                      THEN <<EncoderArgs(reads[id])>> ELSE <<>>,
                       ![id].endedAfter = call.op]
    /\ procRunning' = procRunning \ {id}
    /\ UNCHANGED <<ioQueue, ioRunning, decoders, procQueue>>
    /\ UNCHANGED <<capture, win32, encoder, bw64Vars, fmtParse, audioSync, vfsVars, call, replaced, syncVars>>

(***************************************************************************)
(* readFile: the dispatch on the entry's name.                             *)
(***************************************************************************)
readFile(entry, options, pos, len, ub) ==
    /\ IF win32 /\ entry.name = DesktopIniName
       THEN /\ syncRead' = [kind |-> "hidden", pos |-> pos, len |-> len]
                               @@ readDesktopIni(pos, len, ub)
            /\ UNCHANGED <<pipeVars, copy>>
       ELSE IF ends_with(entry.name, WavExt)
       THEN LET out == generateAudio(mAudioFile, pos, len)
            IN  /\ syncRead' = [kind |-> "audio", pos |-> pos, len |-> len] @@ out
                /\ copy' = IF pos = copy.next /\ len > 0
                           THEN [next |-> pos + len, bytes |-> copy.bytes \o out.data]
                           ELSE copy
                /\ UNCHANGED pipeVars
       ELSE IF ends_with(entry.name, DngExt)
       THEN /\ generateFrame(entry, options, pos, len)
            /\ UNCHANGED syncVars
       ELSE /\ syncRead' = [kind |-> "other", pos |-> pos, len |-> len, ret |-> 0,
                            data |-> <<>>, callbacks |-> <<<<0, 0 - 1>>>>,
                            crashed |-> FALSE]
            /\ UNCHANGED <<pipeVars, copy>>
    /\ call' = [op |-> "readFile", options |-> options, result |-> "ok"]
    /\ UNCHANGED <<capture, win32, encoder, bw64Vars, fmtParse, audioSync, vfsVars, replaced>>

\* Entries a host may pass that the directory does not list: an image name
\* without a frame timestamp, an image name with a timestamp the capture
\* does not hold, a name with another extension.
ForeignImageEntries ==
    {Entry(SlotName9, MaxDng, NoUserData), Entry(SlotName9, MaxDng, 0)}
OtherEntry == Entry(<<"x", ".", "t", "x", "t">>, 0, NoUserData)

Listed == {listFiles[i] : i \in 1..Len(listFiles)}

(***************************************************************************)
(* SpecFrame: one image read, of a listed or a foreign entry, at any       *)
(* position and length around the encoded sizes, through both stages.      *)
(***************************************************************************)
LenChoices(entry, pos) ==
    {0, 1, MaxDng + 1} \cup {n \in {entry.size - pos} : n > 0}

InitFrame ==
    ConstructedOn(CapturesOf({f \in FrameLists(DirMaxFrames, DirMaxTick) : Len(f) >= 1},
                             {NoAudio}),
                  {FALSE}, EncoderProfiles, OptionSet, DraftScales)

NextFrame ==
    \/ /\ reads = <<>>
       /\ \E entry \in {e \in Listed : ends_with(e.name, DngExt)} \cup ForeignImageEntries,
             options \in OptionSet, pos \in 0..(MaxDng + 1) :
             \E len \in LenChoices(entry, pos) :
                readFile(entry, options, pos, len, "zeros")
    \/ \E w \in IoWorkers : Stage1Start(w)
    \/ \E w \in IoWorkers, fault \in {"none", "open", "loadFrame"} :
          Stage1Finish(w, fault)
    \/ Stage2Start
    \/ \E id \in procRunning, fault \in {"none", "encoder", "noOutput"} :
          Stage2Finish(id, fault)

SpecFrame == InitFrame /\ [][NextFrame]_vars

(***************************************************************************)
(* SpecSyncRead: reads of the entries readFile answers before it returns:  *)
(* the audio file, desktop.ini, and a name it does not know.               *)
(***************************************************************************)
InitSyncRead ==
    ConstructedOn(CapturesOf({f \in FrameLists(DirMaxFrames, DirMaxTick) : Len(f) <= 1},
                             DirAudioTracks),
                  BOOLEAN, {"uniform"}, {{}}, {1})

NextSyncRead ==
    /\ ~syncRead.crashed
    /\ \E entry \in {e \in Listed : ~ends_with(e.name, DngExt)} \cup {OtherEntry},
          ub \in UbOutcomes :
          \E pos \in 0..(entry.size + 1), len \in 0..MaxLen :
             readFile(entry, {}, pos, len, ub)

SpecSyncRead == InitSyncRead /\ [][NextSyncRead]_vars

(***************************************************************************)
(* Destruction.  The class defines no destructor: the members go, and each *)
(* thread pool's destructor waits for its tasks and joins its workers; a   *)
(* worker's thread_local decoders go with the worker.                      *)
(***************************************************************************)
Alive == call.op # "destroy"

PoolsIdle ==
    /\ ioQueue = <<>>
    /\ \A w \in IoWorkers : ioRunning[w] = 0
    /\ procQueue = <<>>
    /\ procRunning = {}

destructorEnter ==
    /\ Alive
    /\ call' = [op |-> "destroy", options |-> {}, result |-> "running"]
    /\ UNCHANGED <<capture, win32, encoder, bw64Vars, fmtParse, audioSync, vfsVars, replaced, pipeVars,
                   syncVars>>

destructorReturn ==
    /\ call.op = "destroy" /\ call.result = "running"
    /\ PoolsIdle
    /\ call' = [call EXCEPT !.result = "ok"]
    /\ decoders' = [w \in IoWorkers |-> NoDecoder]
    /\ UNCHANGED <<reads, ioQueue, ioRunning, procQueue, procRunning>>
    /\ UNCHANGED <<capture, win32, encoder, bw64Vars, fmtParse, audioSync, vfsVars, replaced, syncVars>>

(***************************************************************************)
(* SpecPipe: up to MaxReads image reads in flight with a deterministic     *)
(* decoder and encoder, update_options calls between the host's reads, and *)
(* destruction.  The host serialises its own calls; the tasks run on.      *)
(***************************************************************************)
NoTimestampEntry == Entry(SlotName9, MaxDng, NoUserData)

InitPipe ==
    ConstructedOn(CapturesOf({f \in FrameLists(DirMaxFrames, DirMaxTick) :
                                 Len(f) = 2 /\ f[2] = f[1] + TickNs},
                             {NoAudio}),
                  {FALSE}, {"scaled"}, {{}}, DraftScales)

NextPipe ==
    \/ /\ Alive
       /\ Len(reads) < MaxReads
       /\ \E entry \in {e \in Listed : ends_with(e.name, DngExt)} \cup {NoTimestampEntry},
             options \in OptionSet :
             readFile(entry, options, 0, MaxDng, "zeros")
    \/ /\ Alive
       /\ \E options \in OptionSet, draftScale \in DraftScales :
             updateOptions(options, draftScale, "none")
    \/ \E w \in IoWorkers : Stage1Start(w)
    \/ \E w \in IoWorkers : Stage1Finish(w, "none")
    \/ Stage2Start
    \/ \E id \in procRunning : Stage2Finish(id, "none")
    \/ destructorEnter
    \/ destructorReturn

SpecPipe == InitPipe /\ [][NextPipe]_vars

(***************************************************************************)
(* SpecDecoders: image reads of one capture spread over the I/O workers,   *)
(* with entries that hold no timestamp and decoder calls that throw, up to *)
(* destruction.                                                            *)
(***************************************************************************)
InitDecoders ==
    ConstructedOn(CapturesOf({<<TickNs, 2 * TickNs>>}, {NoAudio}),
                  {FALSE}, {"uniform"}, {{}}, {1})

NextDecoders ==
    \/ /\ Alive
       /\ Len(reads) < MaxDecoderReads
       /\ \E entry \in {e \in Listed : e.name = SlotName(0)} \cup {NoTimestampEntry} :
             readFile(entry, {}, 0, MaxDng, "zeros")
    \/ \E w \in IoWorkers : Stage1Start(w)
    \/ \E w \in IoWorkers, fault \in {"none", "open", "loadFrame"} :
          Stage1Finish(w, fault)
    \/ Stage2Start
    \/ \E id \in procRunning : Stage2Finish(id, "none")
    \/ destructorEnter
    \/ destructorReturn

SpecDecoders == InitDecoders /\ [][NextDecoders]_vars

(***************************************************************************)
(* SpecUpdate: one image read, with update_options calls before it, while  *)
(* its tasks wait or run, and after it.                                    *)
(***************************************************************************)
InitUpdate ==
    ConstructedOn(CapturesOf({f \in FrameLists(DirMaxFrames, DirMaxTick) : Len(f) = 2},
                             {NoAudio}),
                  {FALSE}, {"scaled", "uniform"}, OptionSet, DraftScales)

NextUpdate ==
    \/ /\ reads = <<>>
       /\ \E entry \in {e \in Listed : ends_with(e.name, DngExt)} \cup {NoTimestampEntry},
             options \in OptionSet :
             readFile(entry, options, 0, MaxDng, "zeros")
    \/ \E options \in OptionSet, draftScale \in DraftScales,
          fail \in {"none", "open"} :
          updateOptions(options, draftScale, fail)
    \/ \E k \in 0..DirMaxFrames : ReplaceCapture(k)
    \/ \E w \in IoWorkers : Stage1Start(w)
    \/ \E w \in IoWorkers : Stage1Finish(w, "none")
    \/ Stage2Start
    \/ \E id \in procRunning : Stage2Finish(id, "none")

SpecUpdate == InitUpdate /\ [][NextUpdate]_vars

(***************************************************************************)
(* bw64: parseFormatInfoChunk.  A 'fmt ' chunk is the record of its        *)
(* fields; cbSize is in the stream only when size > 16, the extra data     *)
(* (with subFormat) only when it is read.                                  *)
(***************************************************************************)
\* FormatInfoChunk: the values it derives from channels, rate and bits.
FormatInfoChunk(channelCount, sampleRate, bitsPerSample, extraData) ==
    [channelCount |-> channelCount, sampleRate |-> sampleRate,
     bitsPerSample |-> bitsPerSample, extraData |-> extraData,
     blockAlignment |-> (channelCount * bitsPerSample) \div 8,
     bytesPerSecond |-> sampleRate * ((channelCount * bitsPerSample) \div 8)]

ParseError(what) == [ok |-> FALSE, error |-> what, chunk |-> <<>>]

\* A check of the format tag that lets every tag through.
AnyFormatTag(formatTag) == TRUE

\* formatTag != 1 && formatTag != 0xfffe, negated.
SupportedFormatTag(formatTag) ==
    formatTag = WAVE_FORMAT_PCM \/ formatTag = WAVE_FORMAT_EXTENSIBLE

parseFormatInfoChunk(id, size, stream) ==
    IF id # "fmt " THEN ParseError("chunkId != 'fmt '")
    ELSE IF size # 16 /\ size # 18 /\ size # 40
    THEN ParseError("illegal 'fmt ' chunk size")
    ELSE
    LET cbSize == IF size > 16 THEN stream.cbSize ELSE 0
        extraData == IF size > 18 /\ cbSize > 0
                     THEN <<[subFormat |-> stream.subFormat]>>
                     ELSE <<>>
    IN  IF cbSize # 0 /\ cbSize # 22 THEN ParseError("unsupported cbSize")
        ELSE IF ~SupportedFormatTag(stream.formatTag)
        THEN ParseError("format unsupported")
        ELSE IF stream.formatTag = WAVE_FORMAT_EXTENSIBLE /\ extraData = <<>>
        THEN ParseError("missing extra data for WAVE_FORMAT_EXTENSIBLE")
        ELSE IF stream.formatTag = WAVE_FORMAT_EXTENSIBLE
                /\ extraData[1].subFormat # 1
        THEN ParseError("subformat unsupported")
        ELSE
        LET formatInfoChunk == FormatInfoChunk(stream.channelCount, stream.sampleRate,
                                               stream.bitsPerSample, extraData)
        IN  IF formatInfoChunk.blockAlignment # stream.blockAlignment
            THEN ParseError("sanity check failed: blockAlignment")
            ELSE IF formatInfoChunk.bytesPerSecond # stream.bytesPerSecond
            THEN ParseError("sanity check failed: bytesPerSecond")
            ELSE [ok |-> TRUE, error |-> "", chunk |-> <<formatInfoChunk>>]

(***************************************************************************)
(* SpecFmt: parseFormatInfoChunk on chunks of legal and illegal sizes,     *)
(* tags, cbSize, subformats and stored derived values.                     *)
(***************************************************************************)
FmtSizes == {14, 16, 18, 20, 40}
FmtTags == {0, WAVE_FORMAT_PCM, 3, WAVE_FORMAT_EXTENSIBLE}
FmtBits == {16, 24}
FmtCbSizes == {0, 2, 22}
FmtBlockAlignments ==
    {(c * b) \div 8 : c \in 1..MaxChannels, b \in FmtBits}

InitFmt ==
    /\ VfsConstructedOn(CapturesOf({<<>>}, {NoAudio}), {FALSE}, {"uniform"}, {{}}, {1})
    /\ audioSync = NoAudioSync
    /\ headerParse = NoHeaderParse
    /\ bw64Reader = NoBw64Reader
    /\ \E id \in {"fmt ", "data"}, size \in FmtSizes, tag \in FmtTags,
          channels \in 1..MaxChannels, bits \in FmtBits,
          ba \in FmtBlockAlignments, bpsBa \in FmtBlockAlignments,
          cb \in FmtCbSizes, sub \in {1, 3} :
          fmtParse = [id |-> id, size |-> size, formatTag |-> tag,
                      channelCount |-> channels, sampleRate |-> 1000,
                      bytesPerSecond |-> 1000 * bpsBa, blockAlignment |-> ba,
                      bitsPerSample |-> bits, cbSize |-> cb, subFormat |-> sub,
                      called |-> FALSE, result |-> ParseError("")]

callParseFormatInfoChunk ==
    /\ ~fmtParse.called
    /\ fmtParse' = [fmtParse EXCEPT
                       !.called = TRUE,
                       !.result = parseFormatInfoChunk(fmtParse.id, fmtParse.size,
                                                       fmtParse)]
    /\ UNCHANGED <<capture, win32, encoder, bw64Vars, audioSync, vfsVars, call, replaced,
                   pipeVars, syncVars>>

NextFmt == callParseFormatInfoChunk

SpecFmt == InitFmt /\ [][NextFmt]_vars

(***************************************************************************)
(* bw64: Bw64Reader resolving the size of a chunk header.  The 32-bit size *)
(* field of the file is SizeBits wide here; EscapeSize is its all-ones     *)
(* value, 0xFFFFFFFF in the file.  The sizes of a ds64 chunk are wider.    *)
(***************************************************************************)
EscapeSize == 2 ^ SizeBits - 1

\* DataSize64Chunk as parseDataSize64Chunk builds it from the stream.
DataSize64Chunk(bw64Size, dataSize, table) ==
    [bw64Size |-> bw64Size, dataSize |-> dataSize, table |-> table]

hasChunkSize(ds64, id) == id \in DOMAIN ds64.table
getChunkSize(ds64, id) == ds64.table[id]

\* ds64Chunk is <<>> for nullptr, <<chunk>> once init() has parsed it.
getChunkSize64(ds64Chunk, id, chunkSize) ==
    IF ds64Chunk # <<>>
    THEN IF id = "BW64" \/ id = "RF64" THEN ds64Chunk[1].bw64Size
         ELSE IF id = "data" THEN ds64Chunk[1].dataSize
         ELSE IF hasChunkSize(ds64Chunk[1], id) THEN getChunkSize(ds64Chunk[1], id)
         ELSE chunkSize
    ELSE chunkSize

\* parseHeader: the id and the 32-bit size are read, the size is resolved.
parseHeader(ds64Chunk, chunkId, chunkSize, position) ==
    [id |-> chunkId, size |-> getChunkSize64(ds64Chunk, chunkId, chunkSize),
     position |-> position]

(***************************************************************************)
(* SpecHeader: parseHeader in parseChunkHeaders, of a RIFF file (no ds64   *)
(* chunk parsed) and of a BW64/RF64 file (init() has parsed its ds64       *)
(* chunk), on headers of every id and 32-bit size.                         *)
(***************************************************************************)
HeaderIds == {"data", "fmt ", "JUNK", "BW64"}
Ds64Sizes == {0, 2, EscapeSize + 2}
Ds64Tables == {<<>>} \cup {[i \in {"JUNK"} |-> n] : n \in {EscapeSize + 1}}
Ds64Chunks ==
    {DataSize64Chunk(b, d, t) : b \in {0, EscapeSize + 4}, d \in Ds64Sizes,
                                t \in Ds64Tables}

InitHeader ==
    /\ VfsConstructedOn(CapturesOf({<<>>}, {NoAudio}), {FALSE}, {"uniform"}, {{}}, {1})
    /\ audioSync = NoAudioSync
    /\ fmtParse = NoFmtParse
    /\ bw64Reader = NoBw64Reader
    /\ \E ds64Chunk \in {<<>>} \cup {<<c>> : c \in Ds64Chunks},
          id \in HeaderIds, chunkSize \in 0..EscapeSize :
          headerParse = [ds64 |-> ds64Chunk, id |-> id, chunkSize |-> chunkSize,
                         called |-> FALSE, size |-> 0]

callParseHeader ==
    /\ ~headerParse.called
    /\ headerParse' = [headerParse EXCEPT
           !.called = TRUE,
           !.size = parseHeader(headerParse.ds64, headerParse.id,
                                headerParse.chunkSize, 0).size]
    /\ UNCHANGED <<capture, win32, encoder, bw64Reader, fmtParse, audioSync, vfsVars,
                   call, replaced, pipeVars, syncVars>>

NextHeader == callParseHeader

SpecHeader == InitHeader /\ [][NextHeader]_vars

(***************************************************************************)
(* bw64: an open Bw64Reader.  The stream position is kept as the frame it  *)
(* stands at (seek and read move it by whole frames, tell() divides it     *)
(* back); uint64_t is FrameBits wide here, and the arithmetic of read      *)
(* wraps at that width.                                                    *)
(***************************************************************************)
FrameWrap == 2 ^ FrameBits

\* numberOfFrames(): dataChunk()->size() / blockAlignment().
numberOfFrames(dataSize, blockAlignment) == dataSize \div blockAlignment

\* seek(offset, way): the frame the stream is positioned at.  The sum is
\* made in int64_t, of a frame count and an int32_t.
seek(r, offset, way) ==
    LET startFrame == IF way = "cur" THEN r.tell
                      ELSE IF way = "beg" THEN 0
                      ELSE r.numberOfFrames
        frame == startFrame + offset
    IN  IF frame < 0 THEN 0
        ELSE IF frame > r.numberOfFrames THEN r.numberOfFrames
        ELSE frame

\* read(outBuffer, frames): the frames it settles on, and how it ends.  The
\* bytes of more frames than the file holds cannot be had: resize or the
\* stream read throws.
read(r, frames, fileBytesLeft) ==
    LET clamped == IF (r.tell + frames) % FrameWrap > r.numberOfFrames
                   THEN (r.numberOfFrames - r.tell) % FrameWrap
                   ELSE frames
        bytes == (clamped * r.blockAlignment) % FrameWrap
    IN  IF clamped = 0 THEN [result |-> "returns", ret |-> 0, tell |-> r.tell]
        ELSE IF bytes > fileBytesLeft
        THEN [result |-> "throws", ret |-> 0, tell |-> r.tell]
        ELSE [result |-> "returns", ret |-> clamped,
              tell |-> r.tell + bytes \div r.blockAlignment]

(***************************************************************************)
(* SpecReader: seek and read calls on a reader opened on a data chunk of   *)
(* up to MaxDataBytes bytes; init() ends with seek(0).                     *)
(***************************************************************************)
BlockAlignments == {1, 2}
ReadCounts ==
    0..(MaxDataBytes + 1) \cup {FrameWrap - k : k \in 1..MaxDataBytes}

InitReader ==
    /\ VfsConstructedOn(CapturesOf({<<>>}, {NoAudio}), {FALSE}, {"uniform"}, {{}}, {1})
    /\ audioSync = NoAudioSync
    /\ fmtParse = NoFmtParse
    /\ headerParse = NoHeaderParse
    /\ \E dataSize \in 0..MaxDataBytes, blockAlignment \in BlockAlignments :
          bw64Reader = [open |-> TRUE, dataSize |-> dataSize,
                        numberOfFrames |-> numberOfFrames(dataSize, blockAlignment),
                        blockAlignment |-> blockAlignment, tell |-> 0,
                        op |-> "seek", way |-> "beg", arg |-> 0, before |-> 0,
                        result |-> "returns", ret |-> 0]

callSeek(offset, way) ==
    /\ bw64Reader.open
    /\ bw64Reader' = [bw64Reader EXCEPT
           !.op = "seek", !.way = way, !.arg = offset, !.before = bw64Reader.tell,
           !.result = "returns", !.ret = 0,
           !.tell = seek(bw64Reader, offset, way)]
    /\ UNCHANGED <<capture, win32, encoder, headerParse, fmtParse, audioSync, vfsVars,
                   call, replaced, pipeVars, syncVars>>

callRead(frames) ==
    /\ bw64Reader.open
    /\ LET out == read(bw64Reader, frames,
                       bw64Reader.dataSize - bw64Reader.tell * bw64Reader.blockAlignment)
       IN  bw64Reader' = [bw64Reader EXCEPT
              !.op = "read", !.way = "", !.arg = frames, !.before = bw64Reader.tell,
              !.result = out.result, !.ret = out.ret, !.tell = out.tell]
    /\ UNCHANGED <<capture, win32, encoder, headerParse, fmtParse, audioSync, vfsVars,
                   call, replaced, pipeVars, syncVars>>

NextReader ==
    \/ \E offset \in (0 - MaxSeek)..MaxSeek, way \in {"beg", "cur", "end"} :
          callSeek(offset, way)
    \/ \E frames \in ReadCounts : callRead(frames)

SpecReader == InitReader /\ [][NextReader]_vars

(***************************************************************************)
(* SpecAudio: syncAudio on its own, over video and audio start times on    *)
(* the millisecond grid, chunk lists of every layout, mono and stereo.     *)
(***************************************************************************)
SampleRates == {1000, 2000}

ChunkLayouts ==
    UNION {[1..n -> 1..MaxChunkFrames] : n \in 1..MaxChunks}

InitAudio ==
    /\ VfsConstructedOn(CapturesOf({<<>>}, {NoAudio}), {FALSE}, {"uniform"}, {{}}, {1})
    /\ fmtParse = NoFmtParse
    /\ headerParse = NoHeaderParse
    /\ bw64Reader = NoBw64Reader
    /\ \E v \in 0..AudioMaxTick, a \in 0..AudioMaxTick, layout \in ChunkLayouts,
          channels \in 1..2, rate \in SampleRates :
          audioSync = [videoTimestamp |-> v * TickNs,
                       audioChunks |-> MakeChunks(a * TickNs, layout, channels, rate, 1),
                       sampleRate |-> rate, numChannels |-> channels,
                       called |-> FALSE, result |-> <<>>]

callSyncAudio ==
    /\ ~audioSync.called
    /\ audioSync' = [audioSync EXCEPT
                        !.called = TRUE,
                        !.result = syncAudio(audioSync.videoTimestamp,
                                             audioSync.audioChunks,
                                             audioSync.sampleRate,
                                             audioSync.numChannels)]
    /\ UNCHANGED <<capture, win32, encoder, bw64Vars, fmtParse, vfsVars, call, replaced, pipeVars,
                   syncVars>>

NextAudio == callSyncAudio

SpecAudio == InitAudio /\ [][NextAudio]_vars

(***************************************************************************)
(* SpecDir: construction, then updateOptions calls (any of which may fail  *)
(* at any step) while the capture file may be cut.                         *)
(***************************************************************************)
InitDir ==
    ConstructedOn(CapturesOf(FrameLists(DirMaxFrames, DirMaxTick), DirAudioTracks),
                  BOOLEAN, {"uniform", "scaled"}, OptionSet, DraftScales)

NextDir ==
    \/ \E options \in OptionSet, draftScale \in DraftScales,
          fail \in InitFailPoints :
            updateOptions(options, draftScale, fail)
    \/ \E k \in 0..DirMaxFrames : ReplaceCapture(k)

SpecDir == InitDir /\ [][NextDir]_vars

(***************************************************************************)
(* SpecSynth: construction on the wider frame lists, then successful       *)
(* updateOptions calls.                                                    *)
(***************************************************************************)
InitSynth ==
    ConstructedOn(CapturesOf(FrameLists(MaxFrames, MaxTick), DirAudioTracks),
                  BOOLEAN, EncoderProfiles, OptionSet, DraftScales)

NextSynth ==
    \E options \in OptionSet, draftScale \in DraftScales :
        updateOptions(options, draftScale, "none")

SpecSynth == InitSynth /\ [][NextSynth]_vars

(***************************************************************************)
(* The directory as the host lists it.                                     *)
(***************************************************************************)
IsImageEntry(e) == ends_with(e.name, DngExt)
ImageEntries == SelectSeq(listFiles, IsImageEntry)

InitJustRan == call.op \in {"construct", "updateOptions"}
InitSucceeded == InitJustRan /\ call.result = "ok"

SortedFrames == SortSeq(capture.frames, LAMBDA a, b: a < b)

(***************************************************************************)
(* Claims about init and updateOptions.                                    *)
(***************************************************************************)

\* C7: whenever init has just run without failing on a capture whose frame
\* list is empty, the directory lists at most the hidden entry and fps is 0,
\* whatever the VFS held before.
C7_EmptyFrameListGivesEmptyDirectory ==
    (InitSucceeded /\ capture.frames = <<>>) =>
        /\ \A i \in 1..Len(listFiles) : listFiles[i].name = DesktopIniName
        /\ Len(listFiles) <= 1
        /\ mFps = ZeroFps

\* C8: after a successful updateOptions(o, s) on the capture the VFS was
\* constructed on, the directory, fps, typical image size and audio bytes
\* are those of a VFS freshly constructed with (o, s) on that capture.
C8_ReinitEqualsFreshConstruction ==
    (call.op = "updateOptions" /\ call.result = "ok" /\ ~replaced) =>
        LET fresh == init(Constructed(mDraftScale), capture, win32, encoder,
                          call.options, "none").state
        IN  /\ listFiles = fresh.mFiles
            /\ mFps = fresh.mFps
            /\ mTypicalDngSize = fresh.mTypicalDngSize
            /\ mAudioFile = fresh.mAudioFile

\* C8's case: a re-initialisation with draft options that changed the entry
\* size, on a capture with audio and image entries.
C8_Witness ==
    /\ call.op = "updateOptions" /\ call.result = "ok" /\ ~replaced
    /\ RENDER_OPT_DRAFT \in call.options
    /\ mDraftScale = 2
    /\ mTypicalDngSize < MaxDng
    /\ mAudioFile # <<>>
    /\ Len(ImageEntries) >= 1

\* C9: an updateOptions that fails leaves the members either all as they
\* were or all discarded (as constructed, with an empty directory): never a
\* partial directory, never new values beside old ones.
C9_FailedInitDiscardsPartialState ==
    [][(call'.op = "updateOptions" /\ call'.result = "error") =>
          \/ VfsState' = VfsState
          \/ VfsState' = Constructed(mDraftScale')]_vars

\* round((t - t0) * fps / 1e9) of the last source frame.
LastPts ==
    LET frames == SortedFrames
    IN  IF mFps.frames = 0 THEN 0
        ELSE RoundDiv((frames[Len(frames)] - frames[1]) * mFps.frames, mFps.ns)

\* C10: after a successful init on a non-empty frame list, the image entries
\* in list order are frame-000000.dng .. frame-(K-1).dng, K the pts of the
\* last source frame; all names of the directory differ; a single frame
\* gives no image entry.
C10_ImageEntriesAreTheSlotsBelowLastPts ==
    (InitSucceeded /\ capture.frames # <<>>) =>
        /\ LastPts < 10
        /\ Len(ImageEntries) = LastPts
        /\ \A i \in 1..Len(ImageEntries) : ImageEntries[i].name = SlotName(i - 1)
        /\ \A i, j \in 1..Len(listFiles) :
              i # j => listFiles[i].name # listFiles[j].name
        /\ Len(capture.frames) = 1 => ImageEntries = <<>>

\* C10's case: three source frames, the last at pts 2, after a re-init.
C10_Witness ==
    /\ call.op = "updateOptions" /\ call.result = "ok"
    /\ Len(capture.frames) = 3
    /\ LastPts = 2
    /\ Len(ImageEntries) = 2
    /\ ImageEntries[2].userData = SortedFrames[3]

(***************************************************************************)
(* Image reads.                                                            *)
(***************************************************************************)
Stage2Ended(r) == r.s2 \in {"returned", "escaped"}
ReadSet == {reads[i] : i \in 1..Len(reads)}

\* C1: every readFile call on an image entry has its completion callback
\* invoked, and invoked exactly once, whatever happened in stage 1 or stage 2
\* (success, frame not found, decoder fault, encoder fault, entry without a
\* frame timestamp): a read whose stage-2 task has ended has exactly one
\* callback invocation behind it.
C1_EveryEndedReadCalledBackOnce ==
    \A r \in ReadSet : Stage2Ended(r) => Len(r.callbacks) = 1

FailedRead(r) ==
    /\ r.s2 = "returned"
    /\ \/ r.fault1 \in {"notFound", "decoder"}
       \/ r.fault2 \in {"encoder", "noOutput"}

\* C2: when stage 1 or stage 2 fails (frame timestamp not in the decoder's
\* frame list, decoder error, encoder error, no encoder output) the callback
\* receives exactly (0, -1), and the readFile call that dispatched the read
\* returned 0 with no error reaching its caller.
C2_FailedStageReportsZeroMinusOne ==
    \A r \in ReadSet :
        FailedRead(r) =>
            /\ r.callbacks = <<<<0, 0 - 1>>>>
            /\ r.ret = 0
            /\ call.op = "readFile" /\ call.result = "ok"

C2_Witness ==
    \E r \in ReadSet :
        /\ FailedRead(r)
        /\ r.fault1 = "notFound"
        /\ r.entry.userData # NoUserData

\* C3: an image read at an offset greater than or equal to the encoded
\* image's length, both stages succeeding, completes as a successful
\* zero-byte read: the callback receives (0, 0).
C3_ReadAtOrPastEndIsZeroByteSuccess ==
    \A r \in ReadSet :
        (/\ r.s2 = "returned"
         /\ r.s1 = "value"
         /\ r.fault2 = "none"
         /\ r.pos >= EncodedSize(encoder, r))
        => r.callbacks = <<<<0, 0>>>>

\* C4: for every listed image entry e and every pos in [0, e.size), a
\* successful read of length e.size - pos delivers exactly e.size - pos
\* bytes through the callback, whatever frame the entry points to and
\* whatever render options the read carries.
C4_FullLengthReadDeliversEntrySize ==
    \A r \in ReadSet :
        (/\ r.entry \in Listed
         /\ r.pos < r.entry.size
         /\ r.len = r.entry.size - r.pos
         /\ r.s2 = "returned"
         /\ Len(r.callbacks) = 1
         /\ r.callbacks[1][2] = 0)
        => r.callbacks[1][1] = r.entry.size - r.pos

(***************************************************************************)
(* Synchronous reads.                                                      *)
(***************************************************************************)
\* C5: reading the audio entry never invokes the callback; below the end of
\* the buffer it returns min(len, audio_size - pos) bytes, those at offset
\* pos; so the returned bytes of consecutive slices that together cover
\* [0, audio_size) concatenate to the whole in-memory audio buffer.
C5_AudioSlicesConcatenateToBuffer ==
    /\ syncRead.kind = "audio" =>
          /\ syncRead.callbacks = <<>>
          /\ ~syncRead.crashed
          /\ syncRead.pos < Len(mAudioFile) =>
                /\ syncRead.ret = Min(syncRead.len, Len(mAudioFile) - syncRead.pos)
                /\ syncRead.data =
                      SubSeq(mAudioFile, syncRead.pos + 1, syncRead.pos + syncRead.ret)
    /\ copy.next >= Len(mAudioFile) => copy.bytes = mAudioFile

C5_Witness ==
    /\ syncRead.kind = "audio"
    /\ Len(mAudioFile) > 0
    /\ syncRead.pos > 0
    /\ syncRead.len > 0
    /\ copy.next = syncRead.pos + syncRead.len
    /\ copy.next > Len(mAudioFile)
    /\ syncRead.ret < syncRead.len
    /\ syncRead.ret > 0
    /\ copy.bytes = mAudioFile

SyncEntrySize ==
    IF syncRead.kind = "hidden" THEN Len(DesktopIniBytes) ELSE Len(mAudioFile)

\* C6: for both synchronous reads (audio entry, hidden entry) a read with
\* pos greater than the entry's size returns 0 bytes and copies nothing, for
\* every len: size - pos never becomes a non-zero copy length.
C6_SyncReadPastEndCopiesNothing ==
    (syncRead.kind \in {"audio", "hidden"} /\ syncRead.pos > SyncEntrySize)
    => /\ syncRead.ret = 0
       /\ syncRead.data = <<>>
       /\ ~syncRead.crashed

(***************************************************************************)
(* Drop-gap enumeration.                                                   *)
(***************************************************************************)
\* C11: a capture of exactly two frames [t0, t0 + 3*D], D > 0, initialised
\* with the fps derived from those two timestamps, lists exactly three image
\* entries frame-000000.dng, frame-000001.dng, frame-000002.dng, each with
\* user_data equal to the second source frame.
C11_TwoFramesThreeSlotsApartGiveThreeEntries ==
    (/\ InitSucceeded
     /\ Len(SortedFrames) = 2
     /\ SortedFrames[2] - SortedFrames[1] > 0
     /\ (SortedFrames[2] - SortedFrames[1]) % 3 = 0)
    => /\ Len(ImageEntries) = 3
       /\ \A i \in 1..3 :
             /\ ImageEntries[i].name = SlotName(i - 1)
             /\ ImageEntries[i].userData = SortedFrames[2]

\* The pts init computes for the j-th sorted source frame.
PtsOf(j) == getFrameNumberFromTimestamp(SortedFrames[j], SortedFrames[1], mFps)

\* The earliest sorted source frame whose pts is above slot s (0 if none).
NextArriving(s) ==
    LET later == {j \in 1..Len(SortedFrames) : PtsOf(j) > s}
    IN  IF later = {} THEN 0
        ELSE CHOOSE j \in later : \A k \in later : j <= k

\* C12: the image entry of slot s carries the timestamp of the earliest
\* source frame, in sorted order, whose pts is strictly greater than s; so
\* the first source frame is the user_data of no entry, and three uniformly
\* spaced frames t0, t1, t2 give frame-000000 -> t1, frame-000001 -> t2.
C12_SlotPointsToNextArrivingFrame ==
    (InitSucceeded /\ capture.frames # <<>>) =>
        /\ \A i \in 1..Len(ImageEntries) :
              /\ ImageEntries[i].name = SlotName(i - 1)
              /\ NextArriving(i - 1) # 0
              /\ ImageEntries[i].userData = SortedFrames[NextArriving(i - 1)]
              /\ ImageEntries[i].userData # SortedFrames[1]
        /\ (/\ Len(SortedFrames) = 3
            /\ SortedFrames[2] > SortedFrames[1]
            /\ SortedFrames[3] - SortedFrames[2] = SortedFrames[2] - SortedFrames[1])
           => /\ Len(ImageEntries) = 2
              /\ ImageEntries[1].userData = SortedFrames[2]
              /\ ImageEntries[2].userData = SortedFrames[3]

\* C12's case: a gap: slots 0 and 1 both filled by the third source frame,
\* the second frame (pts 0) filling none.
C12_Witness ==
    /\ InitSucceeded
    /\ Len(SortedFrames) = 3
    /\ SortedFrames[2] > SortedFrames[1]
    /\ PtsOf(2) = 0
    /\ Len(ImageEntries) = 2
    /\ ImageEntries[1].userData = SortedFrames[3]
    /\ ImageEntries[2].userData = SortedFrames[3]

(***************************************************************************)
(* The directory between calls.                                            *)
(***************************************************************************)
\* The names frame-NNNNNN.dng the model's directories can hold.
IsFrameName(name) == \E n \in 0..9 : name = SlotName(n)

\* C13: in every state reached by construction and any sequence of
\* update_options calls, every listed entry is a FILE; an entry carries a
\* frame timestamp iff it is a frame-NNNNNN.dng entry; every image entry has
\* the stored typical image size; the audio.wav entry, when listed, has the
\* length of the in-memory audio buffer.
C13_ListedEntriesAreWellFormed ==
    \A i \in 1..Len(listFiles) :
        LET e == listFiles[i]
        IN  /\ e.type = "FILE_ENTRY"
            /\ (e.userData # NoUserData) <=> IsFrameName(e.name)
            /\ IsFrameName(e.name) => e.size = mTypicalDngSize
            /\ e.name = AudioName => e.size = Len(mAudioFile)

\* C13's case: a re-initialisation under draft options that changed the
\* typical size, the directory holding all three kinds of entry.
C13_Witness ==
    /\ call.op = "updateOptions" /\ call.result = "ok"
    /\ win32
    /\ mTypicalDngSize < MaxDng
    /\ \E i, j, k \in 1..Len(listFiles) :
          /\ listFiles[i].name = DesktopIniName
          /\ listFiles[j].name = AudioName /\ listFiles[j].size > 0
          /\ IsFrameName(listFiles[k].name)
          /\ listFiles[k].size = mTypicalDngSize

(***************************************************************************)
(* syncAudio.                                                              *)
(***************************************************************************)
\* audioChunks[0].first - videoTimestamp, in nanoseconds.
AudioDrift == audioSync.audioChunks[1].ts - audioSync.videoTimestamp

\* C14: after syncAudio, for every non-empty chunk list and every sign of
\* the drift, the chunk list is non-empty and its first chunk's timestamp is
\* exactly video_t0, also when leading chunks were erased or a chunk was
\* partially trimmed.
C14_FirstChunkStartsAtVideoStart ==
    audioSync.called =>
        /\ audioSync.result # <<>>
        /\ audioSync.result[1].ts = audioSync.videoTimestamp

C16_SilenceShiftIsTheDriftInNanoseconds ==
    (audioSync.called /\ AudioDrift < 0) =>
        /\ Len(audioSync.result) = Len(audioSync.audioChunks) + 1
        /\ audioSync.result[1].ts = audioSync.videoTimestamp
        /\ \A k \in 1..Len(audioSync.result[1].samples) :
              audioSync.result[1].samples[k] = 0
        /\ \A k \in 1..Len(audioSync.audioChunks) :
              /\ audioSync.result[k + 1].samples = audioSync.audioChunks[k].samples
              /\ audioSync.result[k + 1].ts =
                    audioSync.audioChunks[k].ts + (0 - AudioDrift)

(***************************************************************************)
(* Reads, update_options and destruction.                                  *)
(***************************************************************************)
\* C17: two image reads of the same entry with the same render options and
\* the same (pos, len), whenever issued (concurrently or with update_options
\* calls between them), deliver the same byte count and status, the decoder
\* and the encoder being deterministic: the output is determined by
\* (entry, options).
C17_SameEntryAndOptionsSameOutput ==
    \A i, j \in 1..Len(reads) :
        (/\ reads[i].s2 = "returned" /\ reads[j].s2 = "returned"
         /\ reads[i].entry = reads[j].entry
         /\ reads[i].options = reads[j].options
         /\ reads[i].pos = reads[j].pos
         /\ reads[i].len = reads[j].len)
        => /\ reads[i].callbacks = reads[j].callbacks
           /\ reads[i].copied = reads[j].copied

\* C18: the fps and draft scale stage 2 of a read passes to the encoder are
\* the pair the VFS held when the read was submitted, whatever update_options
\* does while the read is in flight: the pair is copied whole at submission,
\* never changes afterwards, and is the one passed.
C18_ReadKeepsThePairHeldAtSubmission ==
    [][/\ \A id \in 1..Len(reads) :
             /\ reads'[id].fps = reads[id].fps
             /\ reads'[id].draftScale = reads[id].draftScale
             /\ reads'[id].passed # <<>> =>
                   reads'[id].passed[1] =
                      [fps |-> reads[id].fps, draftScale |-> reads[id].draftScale]
       /\ Len(reads') > Len(reads) =>
             /\ reads'[Len(reads')].fps = mFps
             /\ reads'[Len(reads')].draftScale = mDraftScale
             /\ mFps' = mFps /\ mDraftScale' = mDraftScale]_vars

\* C18's case: a read submitted before an update_options that changed both
\* fps and draft scale, completed after it with the pair of before it.
C18_Witness ==
    \E r \in ReadSet :
        /\ r.s2 = "returned"
        /\ r.endedAfter = "updateOptions"
        /\ call.op = "updateOptions" /\ call.result = "ok"
        /\ r.passed # <<>>
        /\ r.passed[1].draftScale # mDraftScale
        /\ r.passed[1].fps # mFps
        /\ RENDER_OPT_DRAFT \in r.options

\* C19: destruction returns only after every submitted stage-1 and stage-2
\* task has finished, every read submitted before it has had its callback
\* invoked by then, and no worker's decoder is released while a task runs.
C19_DestructionWaitsForEveryCallback ==
    /\ (call.op = "destroy" /\ call.result = "ok") =>
          /\ PoolsIdle
          /\ \A r \in ReadSet :
                /\ Stage1Ended(r)
                /\ Stage2Ended(r)
                /\ Len(r.callbacks) = 1
    /\ \A w \in IoWorkers : ioRunning[w] # 0 => call.result # "ok" \/ Alive

(***************************************************************************)
(* The 'fmt ' chunk parser.                                                *)
(***************************************************************************)
\* What the chunk carries: cbSize (0 when the chunk has no such field) and
\* whether extra data is in it.
FmtCbSize == IF fmtParse.size > 16 THEN fmtParse.cbSize ELSE 0
FmtHasExtraData == fmtParse.size > 18 /\ FmtCbSize > 0
FmtDerivedAlignment == (fmtParse.channelCount * fmtParse.bitsPerSample) \div 8

\* C20: parseFormatInfoChunk returns a chunk only if the size is 16, 18 or
\* 40, cbSize is 0 or 22, and the tag is 1 or 0xFFFE with extra data and
\* subformat 1; any other tag, 0xFFFE without extra data or with another
\* subformat, a stored block alignment other than channels*bits/8, a stored
\* bytes/sec other than sample_rate*block_alignment: each ends in an error.
C20_FmtChunkAcceptedOnlyWhenLegal ==
    fmtParse.called =>
        /\ fmtParse.result.ok =>
              /\ fmtParse.id = "fmt "
              /\ fmtParse.size \in {16, 18, 40}
              /\ FmtCbSize \in {0, 22}
              /\ \/ fmtParse.formatTag = 1
                 \/ /\ fmtParse.formatTag = 65534
                    /\ FmtHasExtraData
                    /\ fmtParse.subFormat = 1
              /\ fmtParse.result.chunk # <<>>
        /\ fmtParse.formatTag \notin {1, 65534} => ~fmtParse.result.ok
        /\ (fmtParse.formatTag = 65534 /\ ~FmtHasExtraData) => ~fmtParse.result.ok
        /\ (fmtParse.formatTag = 65534 /\ fmtParse.subFormat # 1) => ~fmtParse.result.ok
        /\ fmtParse.blockAlignment # FmtDerivedAlignment => ~fmtParse.result.ok
        /\ fmtParse.bytesPerSecond # fmtParse.sampleRate * FmtDerivedAlignment
              => ~fmtParse.result.ok
        /\ ~fmtParse.result.ok => fmtParse.result.chunk = <<>>

\* C20's case: an extensible chunk of 40 bytes accepted, stereo 24 bit.
C20_Witness ==
    /\ fmtParse.called
    /\ fmtParse.result.ok
    /\ fmtParse.formatTag = 65534
    /\ fmtParse.size = 40
    /\ fmtParse.channelCount = 2
    /\ fmtParse.blockAlignment = 6

(***************************************************************************)
(* The per-worker decoders.                                                *)
(***************************************************************************)
\* Every thread that called into the decoder of worker w's storage is w; the
\* processing workers (not in IoWorkers) are never among them.
DecoderConfined(w) == decoders[w].users \subseteq {w}

\* Worker w holds at most one decoder, constructed once and kept.
DecoderKept(w) ==
    /\ decoders[w].created <= 1
    /\ decoders[w].open <=> decoders[w].created = 1
    /\ decoders[w].open <=> decoders[w].users # {}

\* C21, as the claim states it: a worker's decoder is used by that worker
\* only, each worker holds at most one, and it is created on the worker's
\* first stage-1 task and reused by the later ones.
C21_DecoderCreatedOnFirstTaskAndNeverShared ==
    \A w \in IoWorkers :
        /\ DecoderConfined(w)
        /\ DecoderKept(w)
        /\ decoders[w].tasks >= 1 => decoders[w].created = 1

\* C21, amended: a worker's decoder is used by that worker only, each worker
\* holds at most one, and it is created by the worker's first stage-1 task
\* that does not throw before a Decoder is constructed (every task before it
\* ended early, every task from it on found or made the decoder) and is
\* reused by the later ones, until the workers end with the pool.
C21_DecoderCreatedOnFirstUseAndNeverShared ==
    IF call.op = "destroy" /\ call.result = "ok"
    THEN \A w \in IoWorkers : ~decoders[w].open
    ELSE \A w \in IoWorkers :
            /\ DecoderConfined(w)
            /\ DecoderKept(w)
            /\ decoders[w].early <= decoders[w].tasks
            /\ decoders[w].tasks > decoders[w].early <=> decoders[w].open
            /\ \A id \in 1..Len(reads) :
                  reads[id].s1 = "value" => \E v \in IoWorkers : decoders[v].open

\* C21's case: two workers each hold their own decoder, the first of them
\* having run a second stage-1 task on the decoder it made in its first.
C21_Witness ==
    /\ Alive
    /\ decoders[1].open /\ decoders[1].users = {1}
    /\ decoders[1].tasks = 2 /\ decoders[1].early = 0 /\ decoders[1].created = 1
    /\ decoders[2].open /\ decoders[2].users = {2}
    /\ \A id \in 1..Len(reads) : reads[id].s1 = "value"

(***************************************************************************)
(* The size of the data chunk in a BW64/RF64 file.                         *)
(***************************************************************************)
\* C22: in a BW64/RF64 file (its ds64 chunk parsed) the size resolved for
\* the 'data' chunk header is its 32-bit size field whenever that field is
\* not the escape value, and ds64.data_size only when it is; a file whose
\* ds64 fields are zeroed is read with the size in the data chunk header.
C22_DataSizeIsTheHeaderFieldUnlessEscaped ==
    (headerParse.called /\ headerParse.ds64 # <<>> /\ headerParse.id = "data") =>
        headerParse.size = IF headerParse.chunkSize # EscapeSize
                           THEN headerParse.chunkSize
                           ELSE headerParse.ds64[1].dataSize

(***************************************************************************)
(* The frame position of an open Bw64Reader.                               *)
(***************************************************************************)
MinOf(a, b) == IF a < b THEN a ELSE b

\* The frame seek(offset, way) is to reach from the position it was called at.
SeekTarget ==
    LET start == IF bw64Reader.way = "cur" THEN bw64Reader.before
                 ELSE IF bw64Reader.way = "beg" THEN 0
                 ELSE bw64Reader.numberOfFrames
        frame == start + bw64Reader.arg
    IN  IF frame < 0 THEN 0 ELSE MinOf(frame, bw64Reader.numberOfFrames)

\* C23: after any seek and read calls 0 <= tell() <= numberOfFrames();
\* read(buf, frames) returns min(frames, numberOfFrames() - tell()) for
\* every value of frames, also those for which tell() + frames passes the
\* largest uint64_t, and advances the position by the count returned; seek
\* clamps its target to [0, numberOfFrames()].
C23_PositionStaysInTheDataAndReadsAreClamped ==
    bw64Reader.open =>
        /\ 0 <= bw64Reader.tell
        /\ bw64Reader.tell <= bw64Reader.numberOfFrames
        /\ bw64Reader.op = "read" =>
              /\ bw64Reader.result = "returns"
              /\ bw64Reader.ret =
                    MinOf(bw64Reader.arg,
                          bw64Reader.numberOfFrames - bw64Reader.before)
              /\ bw64Reader.tell = bw64Reader.before + bw64Reader.ret
        /\ bw64Reader.op = "seek" => bw64Reader.tell = SeekTarget

====
